---- MODULE Spec2Model ----
(***************************************************************************)
(* Model of c7n/resources/elasticsearch.py: the ElasticSearchDomain        *)
(* resource manager (generate_arn, get_resources, augment) and its actions *)
(* (delete, tag, remove-tag, mark-for-op), run against a provider client   *)
(* whose calls may succeed, be throttled or fail.                          *)
(*                                                                         *)
(* One operation runs at a time.  Every invocation of a provider call is   *)
(* one step and is appended to `log` with its arguments and its outcome.   *)
(***************************************************************************)
EXTENDS Naturals, Sequences, FiniteSets, TLC

VARIABLES
    pc,             \* "idle", "running" or "done"
    op,             \* the operation that runs or has run
    self,           \* the manager instance the operation runs on
    _generate_arn,  \* per manager instance: the cached ARN generator (line 48)
    world,          \* how the provider answers during this operation
    domains,        \* argument of augment / get_resources: the id list
    k,              \* augment: number of the chunk the worker is processing
    phase,          \* _augment: "describe" (line 73) or "tags" (lines 76-79)
    resources,      \* _augment: the local `resources`; actions: the batch
    pos,            \* index of the for loop in progress
    chunkResults,   \* augment: the lists returned by _augment so far
    chunkErrors,    \* augment: the errors raised by _augment so far
    idx,            \* retry: attempt index of the wrapped call in progress
    plan,           \* provider: how the latest wrapped call answers
    tags,           \* argument `tags` of process_resource_set
    run,            \* tag action: 1, or 2 when it is called a second time
    firstLog,       \* tag action: the provider calls of its first call
    outcome,        \* "none", "returned" or "raised"
    returned,       \* the value returned (when outcome = "returned")
    raised,         \* the error code raised (when outcome = "raised")
    log             \* every provider call invoked, in order

vars == <<pc, op, self, _generate_arn, world, domains, k, phase, resources, pos,
          chunkResults, chunkErrors, idx, plan, tags, run, firstLog, outcome, returned, raised, log>>

----------------------------------------------------------------------------
(* Bounds of the model *)

\* longest id list handed to augment / get_resources
MaxIds == 6
\* largest batch of records handed to an action
MaxBatch == 3
\* max_attempts of the retry policy (get_retry's parameter)
MaxAttempts == 2
\* wrapped calls per augment run that the provider answers with an error
MaxFaultyCalls == 1
\* largest batch on which the tag action is called a second time
MaxRerunBatch == 2

(* Program constants *)

\* the default size of chunks, used when the size argument is left out
ChunkSizeDefault == 10 * 5

\* the size given to chunks, line 84
ChunkSize == 5

\* a retry policy built with no retried code
RetryCodesNone == {}

\* get_retry(('Throttled',)), line 49
RetryCodes == {"Throttled"}

\* resource_type.id, line 42
ModelId == "DomainName"

Managers == {"m1", "m2"}

\* self.config of each manager instance
Config(m) ==
    IF m = "m1" THEN [region |-> "us-east-1", account_id |-> "111"]
                ELSE [region |-> "cn-north-1", account_id |-> "111"]

NameList == <<"d1", "d2", "d3", "d4", "d5", "d6", "d7", "d8">>

Min(a, b) == IF a < b THEN a ELSE b

\* the id lists handed to augment and get_resources: d1..dL
Ascending(L) == [i \in 1..L |-> NameList[i]]
IdLists == {Ascending(L) : L \in 0..MaxIds}

Reverse(s) == [i \in 1..Len(s) |-> s[Len(s) + 1 - i]]

\* r[field] = value on a record
SetField(r, field, value) ==
    [f \in DOMAIN r \cup {field} |-> IF f = field THEN value ELSE r[f]]

\* d.get(field, default)
Get(d, field, default) == IF field \in DOMAIN d THEN d[field] ELSE default

RECURSIVE Flatten(_)
\* itertools.chain(*lists) as a list
Flatten(ss) == IF ss = <<>> THEN <<>> ELSE Head(ss) \o Flatten(Tail(ss))

----------------------------------------------------------------------------
(* c7n.utils helpers used by the file *)

\* chunks(iterable, size): consecutive slices of `size`, the last one shorter
RECURSIVE chunks(_, _)
chunks(s, n) ==
    IF Len(s) = 0 THEN <<>>
    ELSE IF Len(s) <= n THEN <<s>>
    ELSE <<SubSeq(s, 1, n)>> \o chunks(SubSeq(s, n + 1, Len(s)), n)

\* c7n.utils.generate_arn(service, resource, region=, account_id=,
\* resource_type=, separator=): the ARN string, kept as its components
generate_arn(service, resource, region, account_id, resource_type, separator) ==
    <<"arn", "aws", service, region, account_id, resource_type, separator, resource>>

\* _generate_arn = None (line 48)
NoGenerator == [func |-> "None"]

\* functools.partial(generate_arn, 'es', region=..., account_id=...,
\* resource_type='domain', separator='/'), lines 54-60
NewGenerator(m) ==
    [func |-> "generate_arn", service |-> "es",
     region |-> Config(m).region, account_id |-> Config(m).account_id,
     resource_type |-> "domain", separator |-> "/"]

\* calling the partial with a resource id
ApplyGenerator(g, resource) ==
    generate_arn(g.service, resource, g.region, g.account_id,
                 g.resource_type, g.separator)

\* the generator stored on the class, where every instance finds it
GenerateArnCacheShared(cache, m) ==
    IF cache[m] = NoGenerator THEN [x \in DOMAIN cache |-> NewGenerator(m)]
    ELSE cache

\* the generate_arn property, lines 51-61: the cache after the access
GenerateArnCache(cache, m) ==
    IF cache[m] = NoGenerator THEN [cache EXCEPT ![m] = NewGenerator(m)]
    ELSE cache

\* the retry policy's decision on an error raised at attempt index i:
\* raise for a code it does not retry, raise at the last attempt, else sleep
RetryDecision(code, i) ==
    IF code \notin RetryCodes THEN "raise"
    ELSE IF i = MaxAttempts - 1 THEN "raise"
    ELSE "sleep"

----------------------------------------------------------------------------
(* The provider, as the client shows it *)

\* how the provider answers during one operation
Worlds ==
    [order : {"request", "reversed"},    \* order of a describe response
     stale : BOOLEAN,                    \* describe records carry a Tags field
     tagMode : {"absent", "empty", "tagged"}]  \* shape of a list_tags response

DefaultWorld ==
    [order |-> "request", stale |-> FALSE, tagMode |-> "empty"]

\* the partition a region belongs to
Partition(region) == IF region = "cn-north-1" THEN "aws-cn" ELSE "aws"

\* the ARN the provider itself reports for a domain
ProviderArn(w, m, name) ==
    <<"arn", Partition(Config(m).region), "es", Config(m).region,
      Config(m).account_id, "domain", "/", name>>

StaleTags == <<[Key |-> "stale", Value |-> "old"]>>

\* one element of DomainStatusList
DomainStatus(w, m, name) ==
    IF w.stale
    THEN [DomainName |-> name, ARN |-> ProviderArn(w, m, name), Tags |-> StaleTags]
    ELSE [DomainName |-> name, ARN |-> ProviderArn(w, m, name)]

\* describe_elasticsearch_domains(DomainNames=names)['DomainStatusList']
DomainStatusList(w, m, names) ==
    LET inOrder == [i \in 1..Len(names) |-> DomainStatus(w, m, names[i])]
    IN IF w.order = "request" THEN inOrder ELSE Reverse(inOrder)

\* the response of list_tags(ARN=arn)
ListTagsResponse(w, arn) ==
    CASE w.tagMode = "absent" -> [ResponseMetadata |-> "ok"]
      [] w.tagMode = "empty" -> [ResponseMetadata |-> "ok", TagList |-> <<>>]
      [] OTHER -> [ResponseMetadata |-> "ok",
                   TagList |-> <<[Key |-> "owner", Value |-> arn[4]],
                                 [Key |-> "name", Value |-> arn[8]]>>]

\* how a wrapped call answers: Throttled on its first `throttles`
\* invocations, then `final`
Plans ==
    [throttles : 0..(MaxAttempts - 1), final : {"ok", "AccessDenied"}]
    \cup [throttles : MaxAttempts..(MaxAttempts + 1), final : {"ok"}]
CleanPlan == [throttles |-> 0, final |-> "ok"]

\* what invocation number i (0-based) of a call with plan p does
Answer(p, i) == IF i < p.throttles THEN "Throttled" ELSE p.final

LogEntry(call, arg, i, result) ==
    [op |-> call, arg |-> arg, attempt |-> i, outcome |-> result]

\* wrapped calls of the log the provider answered with an error at first try
FaultyCalls(l) ==
    Cardinality({i \in DOMAIN l : l[i].attempt = 0 /\ l[i].outcome # "ok"})

\* the provider's add_tags for one tag: the value of an existing key is
\* replaced in place, a new key is appended
UpsertTag(ts, t) ==
    IF \E i \in DOMAIN ts : ts[i].Key = t.Key
    THEN [i \in DOMAIN ts |-> IF ts[i].Key = t.Key THEN t ELSE ts[i]]
    ELSE Append(ts, t)

RECURSIVE UpsertAll(_, _)
\* the provider's add_tags(TagList=list) on the tags ts of a domain
UpsertAll(ts, list) ==
    IF list = <<>> THEN ts ELSE UpsertAll(UpsertTag(ts, Head(list)), Tail(list))

RECURSIVE TagsAfter(_, _, _)
\* the tags the provider holds for `arn` after the calls of log l, starting
\* from ts: only a successful add_tags for that ARN changes them
TagsAfter(ts, l, arn) ==
    IF l = <<>> THEN ts
    ELSE LET e == Head(l)
             hit == e.op = "add_tags" /\ e.outcome = "ok" /\ e.arg.ARN = arn
         IN TagsAfter(IF hit THEN UpsertAll(ts, e.arg.TagList) ELSE ts, Tail(l), arn)

----------------------------------------------------------------------------
Init ==
    /\ pc = "idle"
    /\ op = "none"
    /\ self = "m1"
    /\ _generate_arn = [m \in Managers |-> NoGenerator]
    /\ world = DefaultWorld
    /\ domains = <<>>
    /\ k = 1
    /\ phase = "describe"
    /\ resources = <<>>
    /\ pos = 1
    /\ chunkResults = <<>>
    /\ chunkErrors = <<>>
    /\ idx = 0
    /\ plan = CleanPlan
    /\ tags = <<>>
    /\ run = 1
    /\ firstLog = <<>>
    /\ outcome = "none"
    /\ returned = <<>>
    /\ raised = "none"
    /\ log = <<>>

\* a fresh operation `name` on manager m, with provider behaviour w
Begin(name, m, w, ids, batch, t) ==
    /\ pc = "idle"
    /\ pc' = "running"
    /\ op' = name
    /\ self' = m
    /\ world' = w
    /\ domains' = ids
    /\ resources' = batch
    /\ tags' = t
    /\ run' = 1
    /\ firstLog' = <<>>
    /\ k' = 1
    /\ phase' = "describe"
    /\ pos' = 1
    /\ chunkResults' = <<>>
    /\ chunkErrors' = <<>>
    /\ idx' = 0
    /\ plan' = CleanPlan
    /\ outcome' = "none"
    /\ returned' = <<>>
    /\ raised' = "none"
    /\ log' = <<>>
    /\ UNCHANGED _generate_arn

\* the operation ends by returning `value`
Return(value) ==
    /\ pc' = "done"
    /\ outcome' = "returned"
    /\ returned' = value
    /\ raised' = "none"

\* the operation ends by raising `code`
Raise(code) ==
    /\ pc' = "done"
    /\ outcome' = "raised"
    /\ returned' = <<>>
    /\ raised' = code

\* the caller takes the result; the manager instances live on
Reset ==
    /\ pc = "done"
    /\ pc' = "idle"
    /\ op' = "none"
    /\ self' = "m1"
    /\ world' = DefaultWorld
    /\ domains' = <<>>
    /\ resources' = <<>>
    /\ tags' = <<>>
    /\ run' = 1
    /\ firstLog' = <<>>
    /\ k' = 1
    /\ phase' = "describe"
    /\ pos' = 1
    /\ chunkResults' = <<>>
    /\ chunkErrors' = <<>>
    /\ idx' = 0
    /\ plan' = CleanPlan
    /\ outcome' = "none"
    /\ returned' = <<>>
    /\ raised' = "none"
    /\ log' = <<>>
    /\ UNCHANGED _generate_arn

----------------------------------------------------------------------------
(* ElasticSearchDomain.get_resources, lines 63-66 *)

StartGetResources(m, ids, w) ==
    /\ Begin("get_resources", m, w, ids, <<>>, <<>>)

\* the records given an empty Tags field when they have none
GetResourcesValueTagged(statusList) ==
    [i \in DOMAIN statusList |->
        IF "Tags" \in DOMAIN statusList[i] THEN statusList[i]
        ELSE SetField(statusList[i], "Tags", <<>>)]

\* lines 65-66: the value returned, the response's DomainStatusList as it is
GetResourcesValue(statusList) == statusList

\* the single, unwrapped describe call and the return of its list
GetResourcesCall(result) ==
    /\ pc = "running"
    /\ op = "get_resources"
    /\ log' = Append(log, LogEntry("describe_elasticsearch_domains", domains, 0, result))
    /\ IF result = "ok"
       THEN Return(GetResourcesValue(DomainStatusList(world, self, domains)))
       ELSE Raise(result)
    /\ UNCHANGED <<op, self, _generate_arn, world, domains, k, phase, resources, pos,
                   chunkResults, chunkErrors, idx, plan, tags, run, firstLog>>

----------------------------------------------------------------------------
(* ElasticSearchDomain.augment, lines 68-84 *)

\* the id list handed to _augment whole
ChunksUnsplit == <<domains>>

\* chunks(domains, 5), line 84
Chunks == chunks(domains, ChunkSize)

StartAugment(m, ids, w) ==
    /\ Begin("augment", m, w, ids, <<>>, <<>>)

\* the provider's plan for the wrapped call in progress: drawn at its first
\* invocation, kept over its retries
PlanFor(p) ==
    IF idx = 0
    THEN p \in Plans /\ (p = CleanPlan \/ FaultyCalls(log) < MaxFaultyCalls)
    ELSE p = plan

\* self.retry(call): what one invocation answering `ans` leads to:
\* "result" (the call returned), "sleep" (retry) or "raise"
RetryStep(ans, i) == IF ans = "ok" THEN "result" ELSE RetryDecision(ans, i)

\* a wrapped call's error swallowed, the chunks completed so far returned
AugmentOnErrorPartial(code) == "partial"

\* lines 72-84: neither _augment nor augment catches what a wrapped call raises
AugmentOnError(code) == "raise"

\* a wrapped call of _augment raised `code` in the worker: _augment ends
\* there, the error is kept as the outcome of its chunk, and the worker is
\* free for the next chunk submitted by w.map
Fail(code) ==
    /\ chunkErrors' = Append(chunkErrors, code)
    /\ k' = k + 1
    /\ phase' = "describe"
    /\ resources' = <<>>
    /\ pos' = 1
    /\ UNCHANGED <<pc, outcome, returned, raised>>

\* the lists of _augment collected newest first
MapResultNewestFirst(results, chunk) == <<chunk>> \o results

\* lines 83-84: w.map yields the lists of _augment in submission order
MapResult(results, chunk) == Append(results, chunk)

\* a pool whose workers take a chunk while another is in progress
WorkerIdleAlways == TRUE

\* line 82: max_workers=1, the one worker runs _augment on a chunk only when
\* it is not running it on another
WorkerIdle == phase = "describe"

\* lines 73-75: one invocation of describe_elasticsearch_domains under retry
AugmentDescribe(p) ==
    /\ pc = "running"
    /\ op = "augment"
    /\ k <= Len(Chunks)
    /\ WorkerIdle
    /\ PlanFor(p)
    /\ LET ans == Answer(p, idx)
           step == RetryStep(ans, idx)
       IN /\ log' = Append(log, LogEntry("describe_elasticsearch_domains",
                                          Chunks[k], idx, ans))
          /\ CASE step = "result" ->
                    /\ resources' = DomainStatusList(world, self, Chunks[k])
                    /\ phase' = "tags"
                    /\ pos' = 1
                    /\ idx' = 0
                    /\ plan' = p
                    /\ UNCHANGED <<pc, outcome, returned, raised, k, chunkErrors>>
               [] step = "sleep" ->
                    /\ idx' = idx + 1
                    /\ plan' = p
                    /\ UNCHANGED <<pc, outcome, returned, raised, resources,
                                   phase, pos, k, chunkErrors>>
               [] OTHER ->
                    /\ Fail(ans)
                    /\ idx' = 0
                    /\ plan' = p
    /\ UNCHANGED <<op, self, _generate_arn, world, domains, chunkResults, tags, run, firstLog>>

\* the records of the chunk visited last to first
LoopRecordBackwards(rs, i) == rs[Len(rs) + 1 - i]

\* line 76: for r in resources, the record of iteration i
LoopRecord(rs, i) == rs[i]

\* line 77: rarn = self.generate_arn(r[model.id])
Rarn(cache, m, r) == ApplyGenerator(GenerateArnCache(cache, m)[m], r[ModelId])

\* the Tags field set only when the response carries a TagList
WithTagsIfListed(r, response) ==
    IF "TagList" \in DOMAIN response THEN SetField(r, "Tags", response.TagList)
    ELSE r

\* the tags of the response added to those the record already carries
WithTagsMerged(r, response) ==
    SetField(r, "Tags", Get(r, "Tags", <<>>) \o Get(response, "TagList", <<>>))

\* lines 78-79: the record with the tags of a list_tags response
WithTags(r, response) == SetField(r, "Tags", Get(response, "TagList", <<>>))

\* lines 76-79: one invocation of list_tags under retry for resources[pos]
AugmentListTags(p) ==
    /\ pc = "running"
    /\ op = "augment"
    /\ phase = "tags"
    /\ pos <= Len(resources)
    /\ PlanFor(p)
    /\ _generate_arn' = GenerateArnCache(_generate_arn, self)
    /\ LET rarn == Rarn(_generate_arn, self, LoopRecord(resources, pos))
           ans == Answer(p, idx)
           step == RetryStep(ans, idx)
       IN /\ log' = Append(log, LogEntry("list_tags", rarn, idx, ans))
          /\ CASE step = "result" ->
                    /\ resources' = [resources EXCEPT ![pos] =
                                        WithTags(@, ListTagsResponse(world, rarn))]
                    /\ pos' = pos + 1
                    /\ idx' = 0
                    /\ plan' = p
                    /\ UNCHANGED <<pc, outcome, returned, raised, k, phase,
                                   chunkErrors>>
               [] step = "sleep" ->
                    /\ idx' = idx + 1
                    /\ plan' = p
                    /\ UNCHANGED <<pc, outcome, returned, raised, resources, pos,
                                   k, phase, chunkErrors>>
               [] OTHER ->
                    /\ Fail(ans)
                    /\ idx' = 0
                    /\ plan' = p
    /\ UNCHANGED <<op, self, world, domains, chunkResults, tags, run, firstLog>>

\* line 80: _augment returns its chunk; the worker takes the next one
AugmentChunkReturn ==
    /\ pc = "running"
    /\ op = "augment"
    /\ phase = "tags"
    /\ pos > Len(resources)
    /\ chunkResults' = MapResult(chunkResults, resources)
    /\ k' = k + 1
    /\ phase' = "describe"
    /\ resources' = <<>>
    /\ pos' = 1
    /\ UNCHANGED <<pc, op, self, _generate_arn, world, domains, chunkErrors, idx, plan,
                   tags, run, firstLog, outcome, returned, raised, log>>

\* lines 83-84, w.map after a chunk has raised: the main thread, woken by the
\* failed chunk, cancels the chunks still waiting while the worker goes on
\* taking them.  A chunk cancelled before the worker reached it is dropped;
\* one the worker reached first runs in full (AugmentDescribe).
AugmentCancel ==
    /\ pc = "running"
    /\ op = "augment"
    /\ phase = "describe"
    /\ idx = 0
    /\ k <= Len(Chunks)
    /\ chunkErrors # <<>>
    /\ k' = k + 1
    /\ UNCHANGED <<pc, op, self, _generate_arn, world, domains, phase, resources, pos,
                   chunkResults, chunkErrors, idx, plan, tags, run, firstLog,
                   outcome, returned, raised, log>>

\* lines 82-84: list(itertools.chain(*w.map(_augment, chunks(domains, 5))))
AugmentReturn ==
    /\ pc = "running"
    /\ op = "augment"
    /\ phase = "describe"
    /\ k > Len(Chunks)
    /\ chunkErrors = <<>>
    /\ Return(Flatten(chunkResults))
    /\ UNCHANGED <<op, self, _generate_arn, world, domains, k, phase, resources, pos,
                   chunkResults, chunkErrors, idx, plan, tags, run, firstLog, log>>

\* lines 82-84: the with block is left once the worker has gone through every
\* chunk, and the error of the first chunk that raised leaves augment
AugmentRaise ==
    /\ pc = "running"
    /\ op = "augment"
    /\ phase = "describe"
    /\ k > Len(Chunks)
    /\ chunkErrors # <<>>
    /\ IF AugmentOnError(Head(chunkErrors)) = "raise"
       THEN Raise(Head(chunkErrors))
       ELSE Return(Flatten(chunkResults))
    /\ UNCHANGED <<op, self, _generate_arn, world, domains, k, phase, resources, pos,
                   chunkResults, chunkErrors, idx, plan, tags, run, firstLog, log>>

\* lines 51-61: a caller reads the generate_arn property of instance m while
\* no operation runs
GenerateArnRead(m) ==
    /\ pc = "idle"
    /\ _generate_arn' = GenerateArnCache(_generate_arn, m)
    /\ UNCHANGED <<pc, op, self, world, domains, k, phase, resources, pos,
                   chunkResults, chunkErrors, idx, plan, tags, run, firstLog,
                   outcome, returned, raised, log>>

----------------------------------------------------------------------------
(* The actions: Delete.process and the three process_resource_set *)

\* what a provider call of an action may answer
Results == {"ok", "Throttled", "AccessDenied"}

\* the provider behaviours the actions are run against: records without tags
\* (a list_tags response with an empty TagList; one with no TagList gives the
\* same records) and records with tags
ActionWorlds ==
    {w \in Worlds : w.order = "request" /\ ~w.stale /\ w.tagMode # "absent"}

\* the records an action is handed: the first n domains, as augment leaves them
Batch(w, m, n) ==
    [i \in 1..n |->
        WithTags(DomainStatus(w, m, NameList[i]),
                 ListTagsResponse(w, ApplyGenerator(NewGenerator(m), NameList[i])))]

\* the `tags` argument of the tag and mark-for-op actions
TagArgs ==
    {<<>>,
     <<[Key |-> "k1", Value |-> "v1"]>>,
     <<[Key |-> "owner", Value |-> "v1"], [Key |-> "k2", Value |-> "v2"]>>}

\* the `tags` argument of the remove-tag action
KeyArgs == {<<>>, <<"k1">>, <<"k1", "k2">>}

\* tag_list kept from one call to the next instead of starting empty
TagListKept(t) ==
    LET built == [i \in DOMAIN t |-> [Key |-> t[i].Key, Value |-> t[i].Value]]
    IN IF run = 2 THEN built \o built ELSE built

\* lines 143-145 and 210-212: tag_list rebuilt from tags
TagList(t) == [i \in DOMAIN t |-> [Key |-> t[i].Key, Value |-> t[i].Value]]

\* Delete.process, lines 117-118: the call stands in no try block
DeleteOnError(code) == "raise"

\* the add_tags call without its try block
AddTagOnErrorEscapes(code) == "raise"

\* ElasticSearchAddTag, lines 149-153: except Exception ... continue
AddTagOnError(code) == "continue"

\* the remove_tags call without its try block
RemoveTagOnErrorEscapes(code) == "raise"

\* ElasticSearchRemoveTag, lines 180-184: except Exception ... continue
RemoveTagOnError(code) == "continue"

\* the add_tags call of mark-for-op without its try block
MarkForOpOnErrorEscapes(code) == "raise"

\* ElasticSearchMarkForOp, lines 216-220: except Exception ... continue
MarkForOpOnError(code) == "continue"

\* an iteration that also rewrites the Tags of the record it has handled
LoopStepRewriting(entry, result, onError) ==
    /\ log' = Append(log, entry)
    /\ IF result = "ok" \/ onError = "continue"
       THEN /\ pos' = pos + 1
            /\ UNCHANGED <<pc, outcome, returned, raised>>
       ELSE /\ Raise(result)
            /\ UNCHANGED pos
    /\ resources' = [resources EXCEPT ![pos] = SetField(@, "Tags", <<>>)]
    /\ UNCHANGED <<op, self, _generate_arn, world, domains, k, phase,
                   chunkResults, chunkErrors, idx, plan, tags, run, firstLog>>

\* one iteration of an action's for loop: the call is logged, and the loop
\* goes on unless the call failed and the error escapes
LoopStep(entry, result, onError) ==
    /\ log' = Append(log, entry)
    /\ IF result = "ok" \/ onError = "continue"
       THEN /\ pos' = pos + 1
            /\ UNCHANGED <<pc, outcome, returned, raised>>
       ELSE /\ Raise(result)
            /\ UNCHANGED pos
    /\ UNCHANGED <<op, self, _generate_arn, world, domains, k, phase, resources,
                   chunkResults, chunkErrors, idx, plan, tags, run, firstLog>>

\* the for loop is over: the action returns None
LoopReturn ==
    /\ Return(<<>>)
    /\ UNCHANGED <<op, self, _generate_arn, world, domains, k, phase, resources, pos,
                   chunkResults, chunkErrors, idx, plan, tags, run, firstLog, log>>

StartDelete(m, w, n) ==
    /\ Begin("delete", m, w, <<>>, Batch(w, m, n), <<>>)

\* line 118: client.delete_elasticsearch_domain(DomainName=r['DomainName'])
DeleteCall(result) ==
    /\ pc = "running"
    /\ op = "delete"
    /\ pos <= Len(resources)
    /\ LoopStep(LogEntry("delete_elasticsearch_domain",
                         resources[pos].DomainName, 0, result),
                result, DeleteOnError(result))

DeleteReturn ==
    /\ pc = "running"
    /\ op = "delete"
    /\ pos > Len(resources)
    /\ LoopReturn

StartAddTag(m, w, n, t) ==
    /\ Begin("tag", m, w, <<>>, Batch(w, m, n), t)

\* line 148: client.add_tags(ARN=d['ARN'], TagList=tag_list)
AddTagCall(result) ==
    /\ pc = "running"
    /\ op = "tag"
    /\ pos <= Len(resources)
    /\ LoopStep(LogEntry("add_tags",
                         [ARN |-> resources[pos].ARN, TagList |-> TagList(tags)],
                         0, result),
                result, AddTagOnError(result))

AddTagReturn ==
    /\ pc = "running"
    /\ op = "tag"
    /\ pos > Len(resources)
    /\ LoopReturn

\* process_resource_set is called once more with the same domains and tags,
\* whatever the add_tags calls of the first call answered
AddTagAgain ==
    /\ pc = "done"
    /\ op = "tag"
    /\ outcome = "returned"
    /\ run = 1
    /\ Len(resources) <= MaxRerunBatch
    /\ run' = 2
    /\ firstLog' = log
    /\ log' = <<>>
    /\ pc' = "running"
    /\ pos' = 1
    /\ outcome' = "none"
    /\ UNCHANGED <<op, self, _generate_arn, world, domains, k, phase, resources,
                   chunkResults, chunkErrors, idx, plan, tags, returned, raised>>

StartRemoveTag(m, w, n, t) ==
    /\ Begin("remove-tag", m, w, <<>>, Batch(w, m, n), t)

\* line 179: client.remove_tags(ARN=d['ARN'], TagKeys=tags)
RemoveTagCall(result) ==
    /\ pc = "running"
    /\ op = "remove-tag"
    /\ pos <= Len(resources)
    /\ LoopStep(LogEntry("remove_tags",
                         [ARN |-> resources[pos].ARN, TagKeys |-> tags],
                         0, result),
                result, RemoveTagOnError(result))

RemoveTagReturn ==
    /\ pc = "running"
    /\ op = "remove-tag"
    /\ pos > Len(resources)
    /\ LoopReturn

StartMarkForOp(m, w, n, t) ==
    /\ Begin("mark-for-op", m, w, <<>>, Batch(w, m, n), t)

\* line 215: client.add_tags(ARN=d['ARN'], TagList=tag_list)
MarkForOpCall(result) ==
    /\ pc = "running"
    /\ op = "mark-for-op"
    /\ pos <= Len(resources)
    /\ LoopStep(LogEntry("add_tags",
                         [ARN |-> resources[pos].ARN, TagList |-> TagList(tags)],
                         0, result),
                result, MarkForOpOnError(result))

MarkForOpReturn ==
    /\ pc = "running"
    /\ op = "mark-for-op"
    /\ pos > Len(resources)
    /\ LoopReturn

----------------------------------------------------------------------------
Next ==
    \/ \E m \in Managers, ids \in IdLists, w \in Worlds : StartGetResources(m, ids, w)
    \/ \E result \in Results : GetResourcesCall(result)
    \/ \E m \in Managers, ids \in IdLists, w \in Worlds : StartAugment(m, ids, w)
    \/ \E p \in Plans : AugmentDescribe(p)
    \/ \E p \in Plans : AugmentListTags(p)
    \/ AugmentChunkReturn
    \/ AugmentCancel
    \/ AugmentReturn
    \/ AugmentRaise
    \/ \E m \in Managers : GenerateArnRead(m)
    \/ \E m \in Managers, w \in ActionWorlds, n \in 0..MaxBatch : StartDelete(m, w, n)
    \/ \E result \in Results : DeleteCall(result)
    \/ DeleteReturn
    \/ \E m \in Managers, w \in ActionWorlds, n \in 0..MaxBatch, t \in TagArgs :
          StartAddTag(m, w, n, t)
    \/ \E result \in Results : AddTagCall(result)
    \/ AddTagReturn
    \/ AddTagAgain
    \/ \E m \in Managers, w \in ActionWorlds, n \in 0..MaxBatch, t \in KeyArgs :
          StartRemoveTag(m, w, n, t)
    \/ \E result \in Results : RemoveTagCall(result)
    \/ RemoveTagReturn
    \/ \E m \in Managers, w \in ActionWorlds, n \in 0..MaxBatch, t \in TagArgs :
          StartMarkForOp(m, w, n, t)
    \/ \E result \in Results : MarkForOpCall(result)
    \/ MarkForOpReturn
    \/ Reset

Spec == Init /\ [][Next]_vars

----------------------------------------------------------------------------
(* Properties *)

Done(name) == op = name /\ pc = "done"

\* the positions of the log holding an invocation of `call`
Invocations(call) == {i \in DOMAIN log : log[i].op = call}

AllOk == \A i \in DOMAIN log : log[i].outcome = "ok"

\* C1: Delete.process never aborts a batch because one delete failed: when
\* it ends, a delete call was attempted for every record of the batch and no
\* exception escaped.
C1_DeleteNeverAborts ==
    Done("delete") =>
        /\ outcome = "returned"
        /\ Len(log) = Len(resources)

\* C2: tag action isolation: whichever add_tags calls fail, process_resource_set
\* never raises, and when it ends it has issued one add_tags call per record,
\* in record order, with the record's ARN and the tag list.
C2_TagIsolation ==
    op = "tag" =>
        /\ outcome # "raised"
        /\ Len(log) <= Len(resources)
        /\ pc = "done" => Len(log) = Len(resources)
        /\ \A i \in DOMAIN log :
              /\ log[i].op = "add_tags"
              /\ log[i].arg.ARN = resources[i].ARN
              /\ log[i].arg.TagList = tags

\* a batch of three whose second add_tags call failed, the others issued
C2_Witness ==
    /\ Done("tag")
    /\ Len(resources) = 3
    /\ Len(tags) = 2
    /\ Len(log) = 3
    /\ log[1].outcome = "ok"
    /\ log[2].outcome = "AccessDenied"
    /\ log[3].outcome = "ok"

\* the ARN generate_arn gives on manager m for a domain name
GeneratedArn(m, name) ==
    <<"arn", "aws", "es", Config(m).region, Config(m).account_id, "domain", "/", name>>

\* the successful list_tags invocations, in order
ListTagsReturned == SelectSeq(log, LAMBDA e : e.op = "list_tags" /\ e.outcome = "ok")

CeilDiv(a, b) == (a + b - 1) \div b

\* C3: when no call fails, augment on L ids with chunk size 5 issues exactly
\* ceil(L/5) describe calls and at most L list_tags calls and returns exactly
\* L records.
C3_CallCounts ==
    (Done("augment") /\ AllOk) =>
        /\ outcome = "returned"
        /\ Cardinality(Invocations("describe_elasticsearch_domains"))
              = CeilDiv(Len(domains), 5)
        /\ Cardinality(Invocations("list_tags")) <= Len(domains)
        /\ Len(returned) = Len(domains)

\* six ids: chunks of 5 and 1, two describe calls, six list_tags calls
C3_Witness ==
    /\ Done("augment")
    /\ AllOk
    /\ Len(domains) = 6
    /\ Cardinality(Invocations("describe_elasticsearch_domains")) = 2
    /\ log[1].arg = SubSeq(domains, 1, 5)
    /\ log[7].arg = SubSeq(domains, 6, 6)
    /\ Cardinality(Invocations("list_tags")) = 6
    /\ Len(returned) = 6

\* C4 as stated: every record augment returns has a Tags field and an ARN
\* field equal to generate_arn of its DomainName.
C4_ArnIsGenerated ==
    (Done("augment") /\ outcome = "returned") =>
        \A i \in DOMAIN returned :
            /\ "Tags" \in DOMAIN returned[i]
            /\ "ARN" \in DOMAIN returned[i]
            /\ returned[i].ARN = GeneratedArn(self, returned[i].DomainName)

\* C4 (amended): every record augment returns has a Tags field, and the
\* list_tags call made for it carried generate_arn of its DomainName; its ARN
\* field is the one of the describe response, which augment leaves as it is.
C4_TagsAndProviderArn ==
    (Done("augment") /\ outcome = "returned") =>
        /\ Len(ListTagsReturned) = Len(returned)
        /\ \A i \in DOMAIN returned :
            /\ "Tags" \in DOMAIN returned[i]
            /\ ListTagsReturned[i].arg = GeneratedArn(self, returned[i].DomainName)
            /\ returned[i].ARN =
                  <<"arn", IF self = "m1" THEN "aws" ELSE "aws-cn", "es",
                    Config(self).region, Config(self).account_id, "domain", "/",
                    returned[i].DomainName>>

\* records of a region of another partition, whose list_tags responses carry
\* no TagList
C4_Witness ==
    /\ Done("augment")
    /\ outcome = "returned"
    /\ Len(returned) = 6
    /\ Config(self).region = "cn-north-1"
    /\ world.tagMode = "absent"
    /\ ~world.stale
    /\ returned[6].Tags = <<>>
    /\ returned[6].ARN # GeneratedArn(self, returned[6].DomainName)

\* the last invocation logged
Last == log[Len(log)]

\* C5: retry policy as augment uses it: a wrapped call that is throttled
\* exactly K times and then succeeds has returned after exactly K+1
\* invocations when K is below the maximum attempts; with K at or above the
\* maximum, it is invoked exactly that many times and the Throttled error of
\* the last attempt is raised to its caller: _augment ends with it, and
\* augment raises it unless an earlier chunk had raised before.
C5_RetryPolicy ==
    (op = "augment" /\ log # <<>> /\ idx = 0) =>
        LET K == plan.throttles
        IN /\ (K < MaxAttempts /\ plan.final = "ok") =>
                /\ chunkErrors = <<>> => outcome # "raised"
                /\ Last.outcome = "ok"
                /\ Last.attempt + 1 = K + 1
                /\ Len(log) >= K + 1
                /\ \A a \in 0..(K - 1) :
                      LET e == log[Len(log) - K + a]
                      IN e.attempt = a /\ e.outcome = "Throttled" /\ e.op = Last.op
           /\ K >= MaxAttempts =>
                /\ Last.outcome = "Throttled"
                /\ Last.attempt + 1 = MaxAttempts
                /\ Len(log) >= MaxAttempts
                /\ \A a \in 0..(MaxAttempts - 1) :
                      LET e == log[Len(log) - MaxAttempts + 1 + a]
                      IN e.attempt = a /\ e.outcome = "Throttled" /\ e.op = Last.op
                /\ chunkErrors # <<>>
                /\ chunkErrors[Len(chunkErrors)] = "Throttled"
                /\ outcome # "returned"
                /\ pc = "done" =>
                      /\ outcome = "raised"
                      /\ Len(chunkErrors) = 1 => raised = "Throttled"

\* a list_tags call throttled once and then answered, the run going on
C5_Witness ==
    /\ op = "augment"
    /\ pc = "running"
    /\ idx = 0
    /\ log # <<>>
    /\ plan = [throttles |-> 1, final |-> "ok"]
    /\ Last.op = "list_tags"
    /\ Last.attempt = 1
    /\ Last.outcome = "ok"

\* an invocation after which the wrapped call is given up
Fatal(e) ==
    \/ e.outcome = "AccessDenied"
    \/ e.outcome = "Throttled" /\ e.attempt = MaxAttempts - 1

\* the first invocation of the log after which a wrapped call was given up
FirstFatal ==
    CHOOSE i \in DOMAIN log : Fatal(log[i]) /\ \A x \in 1..(i - 1) : ~Fatal(log[x])

\* C6: augmentation is all-or-nothing: once a describe or list_tags call
\* has failed with an error that is not retried, or was throttled at its last
\* attempt, augment never returns a list: it ends by raising the error of the
\* first such call, and the caller has no records, not those of the chunks
\* already completed nor those of the failing chunk.
C6_AllOrNothing ==
    (op = "augment" /\ \E i \in DOMAIN log : Fatal(log[i])) =>
        /\ chunkErrors # <<>>
        /\ outcome # "returned"
        /\ returned = <<>>
        /\ pc = "done" =>
              /\ outcome = "raised"
              /\ raised = log[FirstFatal].outcome

\* the list_tags call of the second chunk failed after the first chunk of
\* five had been completed
C6_Witness ==
    /\ Done("augment")
    /\ outcome = "raised"
    /\ Len(chunkResults) = 1
    /\ Len(chunkResults[1]) = 5
    /\ Last.op = "list_tags"
    /\ Last.outcome = "AccessDenied"
    /\ returned = <<>>

\* the name at place i of the output when the provider answers every
\* describe call in reversed request order: chunks of five, each reversed
ReversedByChunk(ids, i) ==
    LET g == (i - 1) \div 5
        lo == 5 * g + 1
        hi == Min(5 * g + 5, Len(ids))
    IN ids[lo + hi - i]

\* C7: augment's output is the chunk results in submission order, each in
\* the order of the describe response: with a provider answering in request
\* order it has the order of the input ids, with one answering in reversed
\* order each chunk of five is reversed in place.
C7_OutputOrder ==
    (Done("augment") /\ outcome = "returned") =>
        /\ Len(returned) = Len(domains)
        /\ \A i \in DOMAIN returned :
              returned[i].DomainName =
                  IF world.order = "request" THEN domains[i]
                  ELSE ReversedByChunk(domains, i)

\* two chunks answered in reversed order
C7_Witness ==
    /\ Done("augment")
    /\ outcome = "returned"
    /\ world.order = "reversed"
    /\ Len(domains) = 6
    /\ returned[1].DomainName = domains[5]
    /\ returned[5].DomainName = domains[1]
    /\ returned[6].DomainName = domains[6]

\* C8: augment on an empty id list issues no provider call and returns an
\* empty list.
C8_EmptyInput ==
    (op = "augment" /\ domains = <<>>) =>
        /\ log = <<>>
        /\ outcome # "raised"
        /\ pc = "done" => (outcome = "returned" /\ returned = <<>>)

C8_Witness ==
    /\ Done("augment")
    /\ domains = <<>>
    /\ outcome = "returned"
    /\ returned = <<>>
    /\ log = <<>>

\* C9: remove-tag isolation: whichever remove_tags calls fail,
\* process_resource_set never raises, and when it ends it has issued one
\* remove_tags call per record, in record order, with the record's ARN and
\* the whole key list.
C9_RemoveTagIsolation ==
    op = "remove-tag" =>
        /\ outcome # "raised"
        /\ Len(log) <= Len(resources)
        /\ pc = "done" => Len(log) = Len(resources)
        /\ \A i \in DOMAIN log :
              /\ log[i].op = "remove_tags"
              /\ log[i].arg.ARN = resources[i].ARN
              /\ log[i].arg.TagKeys = tags

\* a batch of three whose first and last remove_tags calls failed
C9_Witness ==
    /\ Done("remove-tag")
    /\ Len(resources) = 3
    /\ tags = <<"k1", "k2">>
    /\ Len(log) = 3
    /\ log[1].outcome = "Throttled"
    /\ log[2].outcome = "ok"
    /\ log[3].outcome = "AccessDenied"
    /\ outcome = "returned"

\* C10: get_resources issues exactly one describe call carrying all the ids
\* and no list_tags call, and returns the provider's records as they are: a
\* record has a Tags field only if the provider's record carried one, while
\* every record augment returns has one.
C10_GetResourcesLeavesTags ==
    /\ Done("get_resources") =>
          /\ Len(log) = 1
          /\ log[1].op = "describe_elasticsearch_domains"
          /\ log[1].arg = domains
          /\ log[1].outcome = "ok" =>
                /\ outcome = "returned"
                /\ Len(returned) = Len(domains)
                /\ \A i \in DOMAIN returned :
                      /\ DOMAIN returned[i] =
                            IF world.stale THEN {"DomainName", "ARN", "Tags"}
                            ELSE {"DomainName", "ARN"}
                      /\ world.stale => returned[i].Tags = StaleTags
    /\ (Done("augment") /\ outcome = "returned") =>
          \A i \in DOMAIN returned : "Tags" \in DOMAIN returned[i]

\* six ids described in one call, the records returned without Tags
C10_Witness ==
    /\ Done("get_resources")
    /\ Len(domains) = 6
    /\ Len(log) = 1
    /\ log[1].arg = domains
    /\ outcome = "returned"
    /\ Len(returned) = 6
    /\ \A i \in DOMAIN returned : "Tags" \notin DOMAIN returned[i]

\* the tags the provider holds for `arn` before the action runs
TagsBefore(arn) == Get(ListTagsResponse(world, arn), "TagList", <<>>)

NoDuplicateKey(ts) == \A i, j \in DOMAIN ts : ts[i].Key = ts[j].Key => i = j

\* the tags a domain holds once `list` has been put on the tags ts, for a
\* list without a repeated key: the value of a key already there is replaced
\* in place, the new keys follow in the order of the list
TagsWith(ts, list) ==
    LET replaced == [i \in DOMAIN ts |->
                        IF \E j \in DOMAIN list : list[j].Key = ts[i].Key
                        THEN list[CHOOSE j \in DOMAIN list : list[j].Key = ts[i].Key]
                        ELSE ts[i]]
        fresh == SelectSeq(list, LAMBDA t : \A i \in DOMAIN ts : ts[i].Key # t.Key)
    IN replaced \o fresh

\* the add_tags call for record i answered ok in the calls of log l
TaggedIn(l, i) == i \in DOMAIN l /\ l[i].outcome = "ok"

\* the tags of the record at place i after the first call, and after both
TagsOnce(i) == TagsAfter(TagsBefore(resources[i].ARN), firstLog, resources[i].ARN)
TagsTwice(i) == TagsAfter(TagsOnce(i), log, resources[i].ARN)

\* C11 as stated: a second call of the tag action with the same tag list on
\* the same records builds the identical TagList, does not raise, and with a
\* provider that upserts by key leaves every record's tags as the first call
\* left them, without a duplicated key.
C11_TagIdempotentAlways ==
    (op = "tag" /\ run = 2) =>
        /\ outcome # "raised"
        /\ \A i \in DOMAIN log : log[i].arg.TagList = firstLog[i].arg.TagList
        /\ \A i \in DOMAIN resources :
              TagsTwice(i) = TagsOnce(i) /\ NoDuplicateKey(TagsTwice(i))

\* C11 (amended): neither call of the tag action raises, and both issue
\* add_tags per record with the record's ARN and the same TagList, the one
\* built from `tags`.  With a provider that upserts by key no key is ever
\* duplicated, and a record whose add_tags call succeeded in the first call
\* is left by the second call as the first one left it.  A record whose
\* first add_tags call failed, the failure being swallowed, has kept its old
\* tags after the first call and gets the new ones if the second call's
\* add_tags succeeds: only then do two calls differ from one.
C11_TagIdempotentOnceTagged ==
    (op = "tag" /\ run = 2) =>
        /\ outcome # "raised"
        /\ Len(firstLog) = Len(resources)
        /\ Len(log) <= Len(resources)
        /\ pc = "done" => Len(log) = Len(resources)
        /\ \A i \in DOMAIN firstLog :
              /\ firstLog[i].op = "add_tags"
              /\ firstLog[i].arg.ARN = resources[i].ARN
              /\ firstLog[i].arg.TagList = tags
        /\ \A i \in DOMAIN log :
              /\ log[i].op = "add_tags"
              /\ log[i].arg.ARN = resources[i].ARN
              /\ log[i].arg.TagList = tags
        /\ \A i \in DOMAIN resources :
              LET before == TagsBefore(resources[i].ARN)
              IN /\ NoDuplicateKey(TagsTwice(i))
                 /\ TagsOnce(i) = IF TaggedIn(firstLog, i) THEN TagsWith(before, tags)
                                  ELSE before
                 /\ TagsTwice(i) = IF TaggedIn(firstLog, i) \/ TaggedIn(log, i)
                                   THEN TagsWith(before, tags)
                                   ELSE before
                 /\ TaggedIn(firstLog, i) => TagsTwice(i) = TagsOnce(i)

\* two tags, one of a key the records already carry, put twice on two tagged
\* records: the first record's add_tags failed in the first call and
\* succeeded in the second, the second record's succeeded in both
C11_Witness ==
    /\ Done("tag")
    /\ run = 2
    /\ Len(resources) = 2
    /\ Len(tags) = 2
    /\ world.tagMode = "tagged"
    /\ firstLog[1].outcome = "AccessDenied"
    /\ firstLog[2].outcome = "ok"
    /\ Len(log) = 2
    /\ \A i \in DOMAIN log : log[i].outcome = "ok"
    /\ TagsOnce(1) # TagsTwice(1)
    /\ TagsOnce(2) = TagsTwice(2)
    /\ Len(TagsTwice(2)) = 3
    /\ TagsTwice(2)[1] = [Key |-> "owner", Value |-> "v1"]

RECURSIVE TagRun(_, _, _, _)
\* the provider calls ElasticSearchAddTag.process_resource_set makes on
\* `batch` with tags t, from record i on, when call j answers outcomes[j]
TagRun(batch, t, outcomes, i) ==
    IF i > Len(batch) \/ i > Len(outcomes) THEN <<>>
    ELSE LET e == LogEntry("add_tags",
                           [ARN |-> batch[i].ARN, TagList |-> TagList(t)],
                           0, outcomes[i])
         IN IF outcomes[i] = "ok" \/ AddTagOnError(outcomes[i]) = "continue"
            THEN <<e>> \o TagRun(batch, t, outcomes, i + 1)
            ELSE <<e>>

\* whether that run of the tag action raises
TagRunRaises(batch, t, outcomes) ==
    \E i \in DOMAIN outcomes :
        /\ i <= Len(batch)
        /\ outcomes[i] # "ok"
        /\ AddTagOnError(outcomes[i]) # "continue"

\* C12: mark-for-op is functionally identical to tag: on the same batch, tag
\* list and pattern of failing add_tags calls it issues the same sequence of
\* add_tags calls as ElasticSearchAddTag.process_resource_set and, like it,
\* goes through the whole batch without raising.
C12_MarkForOpAsTag ==
    op = "mark-for-op" =>
        LET outcomes == [i \in DOMAIN log |-> log[i].outcome]
        IN /\ log = TagRun(resources, tags, outcomes, 1)
           /\ (outcome = "raised") = TagRunRaises(resources, tags, outcomes)
           /\ pc = "done" =>
                 /\ outcome = "returned"
                 /\ Len(log) = Len(TagRun(resources, tags,
                                          [i \in DOMAIN resources |-> "ok"], 1))

\* a batch of three whose first two add_tags calls failed
C12_Witness ==
    /\ Done("mark-for-op")
    /\ Len(resources) = 3
    /\ Len(tags) = 2
    /\ Len(log) = 3
    /\ log[1].outcome = "AccessDenied"
    /\ log[2].outcome = "Throttled"
    /\ log[3].outcome = "ok"
    /\ outcome = "returned"

Describe(e) == e.op = "describe_elasticsearch_domains"
ListTags(e) == e.op = "list_tags"

\* the describe / list_tags invocations before place i of the log that returned
DescribedBefore(i) == {x \in 1..(i - 1) : Describe(log[x]) /\ log[x].outcome = "ok"}
ListedBefore(i) == {x \in 1..(i - 1) : ListTags(log[x]) /\ log[x].outcome = "ok"}

\* the last describe invocation before place i of the log that returned
LastDescribed(i) == CHOOSE d \in DescribedBefore(i) : \A x \in DescribedBefore(i) : x <= d

\* the place in the id list of the first id a describe invocation carries
FirstId(e) == CHOOSE j \in DOMAIN domains : domains[j] = e.arg[1]

\* C13: chunk processing is serialized, at most one chunk is in flight: the
\* first describe invocation of a chunk is the first call of the run, or
\* follows the call that ended the chunk taken before it, which is the
\* returned list_tags call of that chunk's last record or the call _augment
\* failed on; a later invocation is the retry of the throttled describe just
\* before it.  Chunks are taken in submission order, none twice, and every
\* list_tags call is for a record of the chunk described last.
C13_ChunksSerialized ==
    op = "augment" =>
        \A i \in DOMAIN log :
            /\ Describe(log[i]) =>
                /\ \E c \in 0..(Len(domains) \div 5) :
                      /\ 5 * c + 1 <= Len(domains)
                      /\ log[i].arg = SubSeq(domains, 5 * c + 1,
                                             Min(5 * c + 5, Len(domains)))
                /\ IF log[i].attempt = 0
                   THEN /\ \/ i = 1
                           \/ Fatal(log[i - 1])
                           \/ /\ ListTags(log[i - 1])
                              /\ log[i - 1].outcome = "ok"
                              /\ DescribedBefore(i) # {}
                              /\ LET d == LastDescribed(i)
                                 IN Cardinality({x \in (d + 1)..(i - 1) :
                                                    log[x].outcome = "ok"})
                                       = Len(log[d].arg)
                        /\ \A x \in 1..(i - 1) :
                              (Describe(log[x]) /\ log[x].attempt = 0) =>
                                  FirstId(log[x]) < FirstId(log[i])
                   ELSE /\ Describe(log[i - 1])
                        /\ log[i - 1].outcome = "Throttled"
                        /\ log[i - 1].attempt = log[i].attempt - 1
                        /\ log[i - 1].arg = log[i].arg
            /\ ListTags(log[i]) =>
                /\ DescribedBefore(i) # {}
                /\ \E n \in DOMAIN log[LastDescribed(i)].arg :
                      log[LastDescribed(i)].arg[n] = log[i].arg[8]

\* the second chunk described right after the fifth list_tags of the first
C13_Witness ==
    /\ op = "augment"
    /\ pc = "running"
    /\ Len(domains) = 6
    /\ Len(log) = 7
    /\ Describe(log[1])
    /\ \A i \in 2..6 : ListTags(log[i]) /\ log[i].outcome = "ok"
    /\ Describe(log[7])
    /\ log[7].arg = <<"d6">>

\* C14: the ARN generator is built lazily and at most once per manager
\* instance: no instance has one at first; an instance's generator appears
\* only in a step where that instance reads generate_arn, in augment for a
\* list_tags call or from a caller while no operation runs, and the read
\* builds it from that instance's configuration; once built it never
\* changes, every later read uses it, and the step that builds it leaves the
\* other instance as it was.
C14_LazyGenerator ==
    /\ \A m \in Managers : _generate_arn[m] = NoGenerator
    /\ [][\A m \in Managers :
            /\ _generate_arn[m] # NoGenerator => _generate_arn'[m] = _generate_arn[m]
            /\ _generate_arn'[m] # _generate_arn[m] =>
                  /\ \/ /\ m = self
                        /\ op = "augment"
                        /\ Len(log') = Len(log) + 1
                        /\ ListTags(log'[Len(log')])
                     \/ /\ pc = "idle"
                        /\ pc' = "idle"
                        /\ log' = log
                  /\ _generate_arn'[m] = NewGenerator(m)
                  /\ \A x \in Managers \ {m} : _generate_arn'[x] = _generate_arn[x]
            /\ (m = self /\ op = "augment" /\ Len(log') = Len(log) + 1
                  /\ ListTags(log'[Len(log')])) =>
                  /\ _generate_arn'[m] = NewGenerator(m)
                  /\ log'[Len(log')].arg[4] = _generate_arn'[m].region
                  /\ log'[Len(log')].arg[5] = _generate_arn'[m].account_id
         ]_vars

\* the second instance has read generate_arn three times after the first
\* one built its own generator
C14_Witness ==
    /\ op = "augment"
    /\ self = "m2"
    /\ Cardinality(Invocations("list_tags")) = 3
    /\ _generate_arn["m1"] = NewGenerator("m1")
    /\ _generate_arn["m2"] = NewGenerator("m2")
    /\ _generate_arn["m1"] # _generate_arn["m2"]

ActionOps == {"delete", "tag", "remove-tag", "mark-for-op"}

\* what the mutating call at place i of the log is aimed at
Target(e) == IF e.op = "delete_elasticsearch_domain" THEN e.arg ELSE e.arg.ARN

\* C15: only read calls are retried: when an action has run, its mutating
\* call was invoked exactly once per record, in record order, and never
\* again after a failure.
C15_OncePerRecord ==
    (op \in ActionOps /\ pc = "done") =>
        /\ Len(log) = Len(resources)
        /\ \A i \in DOMAIN log :
              /\ log[i].attempt = 0
              /\ Target(log[i]) = IF op = "delete" THEN resources[i].DomainName
                                  ELSE resources[i].ARN

\* the tags the provider returns for a domain of manager m
ProviderTags(w, m, name) ==
    CASE w.tagMode = "tagged" ->
            <<[Key |-> "owner", Value |-> Config(m).region],
              [Key |-> "name", Value |-> name]>>
      [] OTHER -> <<>>

\* C16: augmentation replaces tags wholesale: every record augment returns
\* has as Tags exactly the TagList of the list_tags response for that record,
\* the empty sequence when the response has none, whatever Tags the describe
\* record carried, and never the tags of another record.
C16_TagsReplaced ==
    (Done("augment") /\ outcome = "returned") =>
        \A i \in DOMAIN returned :
            returned[i].Tags = ProviderTags(world, self, returned[i].DomainName)

\* describe records that carried Tags, replaced by the listed ones
C16_Witness ==
    /\ Done("augment")
    /\ outcome = "returned"
    /\ world.stale
    /\ world.tagMode = "tagged"
    /\ Len(returned) = 6
    /\ Len(returned[6].Tags) = 2
    /\ returned[6].Tags[2].Value = "d6"

\* the record an action is handed for domain number i
InputRecord(w, m, i) ==
    [DomainName |-> NameList[i],
     ARN |-> <<"arn", IF m = "m1" THEN "aws" ELSE "aws-cn", "es", Config(m).region,
               Config(m).account_id, "domain", "/", NameList[i]>>,
     Tags |-> ProviderTags(w, m, NameList[i])]

\* C17: actions change resources only through provider calls: while and
\* after the tag, remove-tag, mark-for-op or delete action runs, whether its
\* calls succeed or fail, the records it was handed are the same in number,
\* order and fields.
C17_RecordsUntouched ==
    op \in ActionOps =>
        /\ Len(resources) <= MaxBatch
        /\ \A i \in DOMAIN resources : resources[i] = InputRecord(world, self, i)

\* a tag action over three tagged records, one call failed
C17_Witness ==
    /\ Done("tag")
    /\ run = 1
    /\ Len(resources) = 3
    /\ world.tagMode = "tagged"
    /\ Len(log) = 3
    /\ log[1].outcome = "ok"
    /\ log[2].outcome = "Throttled"
    /\ resources[1].Tags[2].Value = "d1"

\* C18: within a chunk the describe call has returned before any list_tags
\* call is issued; list_tags calls are issued one at a time, for the records
\* in the order of the describe response, each with generate_arn of the
\* record's name; and after a list_tags call that fails for good no
\* list_tags call is issued for a later record of that chunk.
C18_TagsInResponseOrder ==
    op = "augment" =>
        \A i \in DOMAIN log :
            /\ (ListTags(log[i]) /\ Fatal(log[i])) =>
                  \A x \in (i + 1)..Len(log) :
                      ~(ListTags(log[x]) /\ LastDescribed(x) = LastDescribed(i))
            /\ ListTags(log[i]) =>
                  /\ DescribedBefore(i) # {}
                  /\ LET d == LastDescribed(i)
                         j == Cardinality({x \in (d + 1)..(i - 1) : log[x].outcome = "ok"})
                         names == log[d].arg
                     IN /\ \A x \in (d + 1)..(i - 1) : ListTags(log[x])
                        /\ j < Len(names)
                        /\ log[i].arg = GeneratedArn(self,
                              IF world.order = "request" THEN names[j + 1]
                              ELSE names[Len(names) - j])
                        /\ IF log[i].attempt = 0
                           THEN log[i - 1].outcome = "ok"
                           ELSE /\ ListTags(log[i - 1])
                                /\ log[i - 1].outcome = "Throttled"
                                /\ log[i - 1].attempt = log[i].attempt - 1
                                /\ log[i - 1].arg = log[i].arg

\* the list_tags call for the third record of a reversed response failed:
\* the last two records of that chunk were never asked for, while the worker
\* went on with the second chunk before augment raised
C18_Witness ==
    /\ Done("augment")
    /\ outcome = "raised"
    /\ world.order = "reversed"
    /\ Len(domains) = 6
    /\ Len(log) = 6
    /\ log[2].arg = GeneratedArn(self, "d5")
    /\ ListTags(log[4])
    /\ log[4].outcome = "AccessDenied"
    /\ log[4].arg = GeneratedArn(self, "d3")
    /\ Describe(log[5])
    /\ log[5].arg = <<"d6">>
    /\ ListTags(log[6])
    /\ log[6].arg = GeneratedArn(self, "d6")

====
